---- MODULE Spec2Model ----
(***************************************************************************)
(* Label tools: make_card_2x2_labels.py, make_pokemon_2x2_labels.py (the   *)
(* two 2x2 card scripts, identical in read_rows / draw_label) and          *)
(* make_comic_4x3_labels.py (the 4x3 comic script).                        *)
(*                                                                         *)
(* Lengths are integers in 1/100 of a point (inch = 72 pt = 7200).         *)
(* A cell of the input is a sequence of characters; a text handed to the   *)
(* wrapper is the sequence of the rendered widths of its words.            *)
(***************************************************************************)
EXTENDS Integers, Sequences, FiniteSets, TLC

VARIABLES
    variant,    \* which script runs: "card", "pokemon" or "comic"
    input,      \* the input file: the family of its rows, its length in rows,
                \* and whether any of its rows holds a delimiter
    pc,         \* position in main()
    file,       \* the rows the csv reader has yielded so far, in order
    rec,        \* the fields extracted from the last row (read_rows dict / draw_label unpacking)
    sniffed,    \* card: csv.Sniffer().sniff returned a dialect
    rows,       \* card: read_rows' result, each record named by its input row number
    pages,      \* pages emitted by showPage, each named by its input row number
    saved,      \* c.save() has written the output document
    err,        \* the fatal error the run ended with, "" if none
    lv,         \* layout: which draw_label runs, "card" or "comic"
    lpc,        \* layout: position in draw_label
    y,          \* layout: the cursor y
    call,       \* layout: the wrap call just made: its arguments and the y it returned
    drawn,      \* layout: the lines that wrap call drew, in order
    bc,         \* layout: the barcode placement
    footer_y    \* layout: the y of the footer line under the barcode

mainVars == <<variant, input, pc, file, rec, sniffed, rows, pages, saved, err>>
layVars  == <<lv, lpc, y, call, drawn, bc, footer_y>>
vars     == <<variant, input, pc, file, rec, sniffed, rows, pages, saved, err,
              lv, lpc, y, call, drawn, bc, footer_y>>

(***************************************************************************)
(* Bounds of the model.                                                    *)
(***************************************************************************)
MaxCols == 9        \* longest input row, in cells
MaxRows == 3        \* most rows the reader yields before the end of the file
MaxWords == 3       \* most words in one text field
MaxWidthSteps == 9  \* barcode native widths tried, in half inches

(***************************************************************************)
(* Units (reportlab.lib.units).                                            *)
(***************************************************************************)
inch == 7200
pt == inch \div 72

(***************************************************************************)
(* Characters and strings.                                                 *)
(***************************************************************************)
Letters == <<"a", "b", "c", "d", "e", "f", "g", "h", "i", "j", "k", "l">>

\* str.strip() removes Unicode whitespace, the no-break space included.
IsSpace(ch) == ch \in {" ", "NBSP"}

RECURSIVE LStrip(_)
LStrip(s) == IF s # <<>> /\ IsSpace(Head(s)) THEN LStrip(Tail(s)) ELSE s

RECURSIVE RStrip(_)
RStrip(s) ==
    IF s # <<>> /\ IsSpace(s[Len(s)]) THEN RStrip(SubSeq(s, 1, Len(s) - 1)) ELSE s

strip(s) == RStrip(LStrip(s))

\* normalize_text: five character replacements, no stripping.
NormChar(ch) ==
    CASE ch = "NBHYPHEN" -> "-"
      [] ch = "ENDASH"   -> "-"
      [] ch = "EMDASH"   -> "-"
      [] ch = "NBSP"     -> " "
      [] ch = "HYPHEN"   -> "-"
      [] OTHER           -> ch

normalize_text(s) == [i \in 1..Len(s) |-> NormChar(s[i])]

(***************************************************************************)
(* Input rows: a row of n cells in which column k has shape s1 and every   *)
(* other column shape s2; column i's visible text is Letters[i].           *)
(***************************************************************************)
Shapes == {"empty", "blank", "plain", "padded", "dashed"}

Cell(i, shape) ==
    CASE shape = "empty"  -> <<>>
      [] shape = "blank"  -> <<" ">>
      [] shape = "plain"  -> <<Letters[i]>>
      [] shape = "padded" -> <<" ", Letters[i], " ">>
      [] shape = "dashed" -> <<Letters[i], "ENDASH", Letters[i]>>

MkRow(n, k, s1, s2) == [i \in 1..n |-> Cell(i, IF i = k THEN s1 ELSE s2)]

Rows == {MkRow(n, k, s1, s2) : n \in 0..MaxCols, k \in 0..MaxCols,
                               s1 \in Shapes, s2 \in Shapes}

\* The rows of a whole-run input: every cell of a row has the same shape.
UniformRows == {MkRow(n, 0, s, s) : n \in 0..MaxCols, s \in {"blank", "padded"}}

InputRows(inp) == IF inp.family = "uniform" THEN UniformRows ELSE Rows

Variants == {"card", "pokemon", "comic"}
IsCard(v) == v \in {"card", "pokemon"}

\* IsBlankRow as it would be if only the empty row were skipped.
IsBlankRowEmptyOnly(r) == r = <<>>

\* "if not raw or all(not x.strip() for x in raw): continue"
IsBlankRow(r) == r = <<>> \/ \A i \in 1..Len(r) : strip(r[i]) = <<>>

NoRec == <<>>

(***************************************************************************)
(* Card variant: read_rows.                                                *)
(***************************************************************************)
\* "while len(raw) < 7: raw.append('')"
RECURSIVE Pad7(_)
Pad7(r) == IF Len(r) < 7 THEN Pad7(Append(r, <<>>)) ELSE r

\* "[x.strip() for x in raw[:7]]"
Stripped7(r) == [i \in 1..7 |-> strip(SubSeq(r, 1, 7)[i])]

\* the dict appended to rows: the 4th column (_price_src) is dropped
CardRecord(r) ==
    LET f == Stripped7(Pad7(r))
    IN  [title |-> f[1], b1 |-> f[2], b2 |-> f[3],
         price |-> f[5], inv |-> f[6], barcode |-> f[7]]

(***************************************************************************)
(* Comic variant: the unpacking at the head of draw_label.                 *)
(***************************************************************************)
ComicRecord(r8) ==
    LET f == [i \in 1..8 |-> normalize_text(r8[i])]
    IN  [title |-> f[1], b1 |-> f[2], b2 |-> f[3], b3 |-> f[4],
         publisher |-> f[5], price |-> f[6], inv |-> f[7], barcode |-> f[8],
         price_display |-> strip(f[6])]

NoCall == [by |-> "none"]
NoBarcode == [placed |-> FALSE]

LayIdle ==
    /\ lv = "none" /\ lpc = "idle" /\ y = 0 /\ call = NoCall /\ drawn = <<>>
    /\ bc = NoBarcode /\ footer_y = 0

(***************************************************************************)
(* main(): the run of one script.                                          *)
(***************************************************************************)
InitRun ==
    /\ variant \in Variants
    /\ pc = "start"
    /\ file = <<>> /\ rec = NoRec
    /\ sniffed = FALSE
    /\ rows = <<>> /\ pages = <<>>
    /\ saved = FALSE /\ err = ""
    /\ LayIdle

\* Whole runs over files of up to MaxRows rows.
Init ==
    /\ InitRun
    /\ input \in {[family |-> "uniform", length |-> n, delim |-> d] :
                    n \in 0..MaxRows, d \in BOOLEAN}
    /\ input.delim => input.length >= 1

\* Runs over a file of one row, the row drawn from every shape of Rows.
InitRecord ==
    /\ InitRun
    /\ input \in {[family |-> "mixed", length |-> 1, delim |-> d] : d \in BOOLEAN}

HasDelim(f) == \E i \in 1..Len(f) : Len(f[i]) >= 2

\* The rows the reader can yield next, given what the file holds.
NextRows ==
    {r \in InputRows(input) :
        /\ ~input.delim => Len(r) <= 1
        /\ (input.delim /\ Len(file) + 1 = input.length /\ ~HasDelim(file)) => Len(r) >= 2}

\* Raise as it would be if the document were saved on the way out.
RaiseAfterSave(e) == pc' = "aborted" /\ err' = e /\ saved' = TRUE

\* An uncaught exception, SystemExit or sys.exit(1): the run ends and nothing
\* after the raise runs, c.save() included.
Raise(e) == pc' = "aborted" /\ err' = e /\ UNCHANGED saved

\* "if not data_file.exists(): raise SystemExit" / "sys.exit(1)"
InputMissing ==
    /\ pc = "start"
    /\ Raise("input not found")
    /\ UNCHANGED <<variant, input, file, rec, sniffed, rows, pages>>
    /\ UNCHANGED layVars

\* The input exists. Card: read_rows opens it and sniffs the delimiter; the
\* sniffer is a heuristic of the csv library: it raises csv.Error when the
\* sample holds no delimiter, and may raise it when it does. Comic: the canvas
\* is created and the reader loop starts.
Open ==
    /\ pc = "start"
    /\ IF IsCard(variant)
       THEN \E ok \in {input.delim, FALSE} :
              IF ok
              THEN sniffed' = TRUE /\ pc' = "read" /\ UNCHANGED <<err, saved>>
              ELSE Raise("could not determine delimiter") /\ UNCHANGED sniffed
       ELSE pc' = "read" /\ UNCHANGED <<sniffed, err, saved>>
    /\ UNCHANGED <<variant, input, file, rec, rows, pages>>
    /\ UNCHANGED layVars

\* Card: one iteration of "for raw in reader" in read_rows.
CardReadRow ==
    /\ pc = "read" /\ IsCard(variant) /\ Len(file) < input.length
    /\ \E r \in NextRows :
         /\ file' = Append(file, r)
         /\ IF IsBlankRow(r)
            THEN UNCHANGED <<rec, rows>>
            ELSE /\ rec' = CardRecord(r)
                 /\ rows' = Append(rows, Len(file) + 1)
    /\ UNCHANGED <<variant, input, pc, sniffed, pages, saved, err>>
    /\ UNCHANGED layVars

\* Card: the reader is exhausted, read_rows returns;
\* "if not rows: raise SystemExit(No rows parsed)".
CardEndOfFile ==
    /\ pc = "read" /\ IsCard(variant) /\ Len(file) = input.length
    /\ IF rows = <<>>
       THEN Raise("no rows parsed")
       ELSE pc' = "render" /\ UNCHANGED <<err, saved>>
    /\ UNCHANGED <<variant, input, file, rec, sniffed, rows, pages>>
    /\ UNCHANGED layVars

\* Card: one iteration of "for row in rows: draw_label(c, row); c.showPage()".
\* Code128 raises on a payload it cannot encode; the error is not caught.
CardRender ==
    /\ pc = "render" /\ Len(pages) < Len(rows)
    /\ \E encodable \in BOOLEAN :
         IF encodable
         THEN /\ pages' = Append(pages, rows[Len(pages) + 1])
              /\ UNCHANGED <<pc, err, saved>>
         ELSE /\ Raise("barcode encoding")
              /\ UNCHANGED pages
    /\ UNCHANGED <<variant, input, file, rec, sniffed, rows>>
    /\ UNCHANGED layVars

\* Card: "c.save()" after the loop.
CardSave ==
    /\ pc = "render" /\ Len(pages) = Len(rows)
    /\ saved' = TRUE /\ pc' = "done"
    /\ UNCHANGED <<variant, input, file, rec, sniffed, rows, pages, err>>
    /\ UNCHANGED layVars

\* "if len(row) < 8: raise ValueError"
RowTooShort(r) == Len(r) < 8

\* Comic: one iteration of "for row in reader" in main.
ComicReadRow ==
    /\ pc = "read" /\ variant = "comic" /\ Len(file) < input.length
    /\ \E r \in NextRows, encodable \in BOOLEAN :
         /\ file' = Append(file, r)
         /\ IF IsBlankRow(r)
            THEN UNCHANGED <<rec, pages, pc, err, saved>>
            ELSE IF RowTooShort(r)
            THEN /\ Raise("row must have 8 columns")
                 /\ UNCHANGED <<rec, pages>>
            ELSE /\ rec' = ComicRecord(SubSeq(r, 1, 8))
                 /\ IF encodable
                    THEN /\ pages' = Append(pages, Len(file) + 1)
                         /\ UNCHANGED <<pc, err, saved>>
                    ELSE /\ Raise("barcode encoding")
                         /\ UNCHANGED pages
    /\ UNCHANGED <<variant, input, sniffed, rows>>
    /\ UNCHANGED layVars

\* Comic: the reader is exhausted; "c.save()".
ComicSave ==
    /\ pc = "read" /\ variant = "comic" /\ Len(file) = input.length
    /\ saved' = TRUE /\ pc' = "done"
    /\ UNCHANGED <<variant, input, file, rec, sniffed, rows, pages, err>>
    /\ UNCHANGED layVars


(***************************************************************************)
(* Text and font metrics. A text is the sequence of the widths of its      *)
(* whitespace-separated words (text.split()) in the font it is drawn in;   *)
(* stringWidth of words joined by single spaces is the sum of the word     *)
(* widths and of the spaces between them. Helvetica, Helvetica-Bold and    *)
(* Helvetica-Oblique share the widths used here, in 1/1000 of the size.    *)
(***************************************************************************)
WordWidths == {40 * pt, 130 * pt, 260 * pt}

RECURSIVE SeqsUpTo(_, _)
SeqsUpTo(S, n) ==
    IF n = 0 THEN {<<>>}
    ELSE LET shorter == SeqsUpTo(S, n - 1)
         IN  shorter \cup {Append(t, w) : t \in shorter, w \in S}

Texts == SeqsUpTo(WordWidths, MaxWords)

SpaceWidth(size) == (278 * size) \div 1000
BulletWidth(size) == (350 * size) \div 1000
PriceLabelWidth(size) == (2556 * size) \div 1000       \* "Price:"
IdLabelWidth(size) == (1278 * size) \div 1000          \* "ID:"
PublisherLabelWidth(size) == (4446 * size) \div 1000   \* "Publisher:"

RECURSIVE SumWidths(_)
SumWidths(line) == IF line = <<>> THEN 0 ELSE Head(line) + SumWidths(Tail(line))

stringWidth(line, size) ==
    IF line = <<>> THEN 0 ELSE SumWidths(line) + (Len(line) - 1) * SpaceWidth(size)

(***************************************************************************)
(* Card variant: configuration and draw_label.                             *)
(***************************************************************************)
PAGE_W == 2 * inch
PAGE_H == 2 * inch
TITLE_SIZE == 10 * pt
BODY_SIZE == 9 * pt
LINE_GAP == 3 * pt
TOP_PADDING == 8 * pt
LEFT_MARGIN == 8 * pt
RIGHT_MARGIN == 8 * pt
BARCODE_HEIGHT == (45 * inch) \div 100
BAR_GAP == 6 * pt
TEXT_UNDER_BAR_GAP == 2 * pt

usable_w == PAGE_W - LEFT_MARGIN - RIGHT_MARGIN

Max(a, b) == IF a >= b THEN a ELSE b

\* wrap_text = reportlab's simpleSplit: the greedy split into lines; a word
\* is appended while "w + ws + lt <= maxWidth or O == []", else the line is
\* flushed and the word starts the next one. O is the line being built and w
\* its width.
RECURSIVE simpleSplit(_, _, _, _, _, _)
simpleSplit(words, O, w, L, size, max_width) ==
    IF words = <<>>
    THEN IF O # <<>> THEN Append(L, O) ELSE L
    ELSE LET t == Head(words)
             ws == SpaceWidth(size)
         IN  IF w + ws + t <= max_width \/ O = <<>>
             THEN simpleSplit(Tail(words), Append(O, t), w + ws + t, L, size, max_width)
             ELSE simpleSplit(Tail(words), <<t>>, t, Append(L, O), size, max_width)

card_wrap_text(words, size, max_width) ==
    simpleSplit(words, <<>>, 0 - SpaceWidth(size), <<>>, size, max_width)

\* "for i, line in enumerate(title_lines): y -= TITLE_SIZE if i == 0 else (TITLE_SIZE + 1)"
RECURSIVE TitleLoop(_, _, _)
TitleLoop(yy, i, n) ==
    IF i = n THEN yy
    ELSE TitleLoop(yy - (IF i = 0 THEN TITLE_SIZE ELSE TITLE_SIZE + 1 * pt), i + 1, n)

\* "for i, line in enumerate(lines): y -= (BODY_SIZE + (LINE_GAP if i == len(lines)-1 else 1))"
RECURSIVE BulletLoop(_, _, _)
BulletLoop(yy, i, n) ==
    IF i = n THEN yy
    ELSE BulletLoop(yy - (BODY_SIZE + (IF i = n - 1 THEN LINE_GAP ELSE 1 * pt)), i + 1, n)

\* CardBarcodeY as it would be without the clamp.
CardBarcodeYNoClamp(yy) == yy - BARCODE_HEIGHT

\* "bc_y = max(8, y - BARCODE_HEIGHT)"
CardBarcodeY(yy) == Max(8 * pt, yy - BARCODE_HEIGHT)

\* The widths a Code128 symbol can report (bc.width), in half inches.
BarcodeWidths == {k * (inch \div 2) : k \in 1..MaxWidthSteps}

CardTop == PAGE_H - TOP_PADDING

CardAfter(at) ==
    CASE at = "title" -> "b1"
      [] at = "b1"    -> "b2"
      [] at = "b2"    -> "price"
      [] at = "price" -> "id"
      [] at = "id"    -> "gap"

\* the words of bullet(...) for the bullet drawn at position at
CardBulletWords(at, text) ==
    CASE at \in {"b1", "b2"} -> <<BulletWidth(BODY_SIZE)>> \o text
      [] at = "price" -> <<BulletWidth(BODY_SIZE), PriceLabelWidth(BODY_SIZE)>> \o text
      [] at = "id"    -> <<BulletWidth(BODY_SIZE), IdLabelWidth(BODY_SIZE)>> \o text

\* Title: wrap and draw the title lines.
CardTitle ==
    /\ lv = "card" /\ lpc = "title"
    /\ \E text \in Texts :
         LET lines == card_wrap_text(text, TITLE_SIZE, usable_w)
             ynew == TitleLoop(y, 0, Len(lines))
         IN  /\ y' = ynew
             /\ drawn' = lines
             /\ call' = [by |-> "card", words |-> text, width |-> usable_w,
                         size |-> TITLE_SIZE, leading |-> 0, y0 |-> y, ret |-> ynew]
    /\ lpc' = CardAfter(lpc)
    /\ UNCHANGED <<lv, bc, footer_y>>
    /\ UNCHANGED mainVars

\* Bullets: one iteration of "for text in bullets".
CardBullet ==
    /\ lv = "card" /\ lpc \in {"b1", "b2", "price", "id"}
    /\ \E text \in Texts :
         LET words == CardBulletWords(lpc, text)
             lines == card_wrap_text(words, BODY_SIZE, usable_w)
             ynew == BulletLoop(y, 0, Len(lines))
         IN  /\ y' = ynew
             /\ drawn' = lines
             /\ call' = [by |-> "card", words |-> words, width |-> usable_w,
                         size |-> BODY_SIZE, leading |-> 0, y0 |-> y, ret |-> ynew]
    /\ lpc' = CardAfter(lpc)
    /\ UNCHANGED <<lv, bc, footer_y>>
    /\ UNCHANGED mainVars

\* "y -= BAR_GAP"
CardGap ==
    /\ lv = "card" /\ lpc = "gap"
    /\ y' = y - BAR_GAP
    /\ lpc' = "barcode"
    /\ call' = NoCall /\ drawn' = <<>>
    /\ UNCHANGED <<lv, bc, footer_y>>
    /\ UNCHANGED mainVars

\* The barcode and the footer line under it.
CardBarcode ==
    /\ lv = "card" /\ lpc = "barcode"
    /\ \E bc_w \in BarcodeWidths :
         LET bc_x == (PAGE_W - bc_w) \div 2
             bc_y == CardBarcodeY(y)
         IN  /\ bc' = [placed |-> TRUE, x |-> bc_x, y |-> bc_y, native |-> bc_w,
                       w |-> bc_w, num |-> 1, den |-> 1]
             /\ footer_y' = bc_y - TEXT_UNDER_BAR_GAP - BODY_SIZE
    /\ lpc' = "done"
    /\ UNCHANGED <<lv, y, call, drawn>>
    /\ UNCHANGED mainVars

(***************************************************************************)
(* Comic variant: configuration, wrap_text and draw_label.                 *)
(***************************************************************************)
COMIC_PAGE_W == 4 * inch
COMIC_PAGE_H == 3 * inch
MARGIN == (25 * inch) \div 100
MAX_TEXT_W == COMIC_PAGE_W - 2 * MARGIN

\* WrapLoop as it would be if the width test measured line instead of test.
RECURSIVE WrapLoopMeasuresLine(_, _, _, _, _, _, _)
WrapLoopMeasuresLine(words, line, out, yy, width, leading, size) ==
    IF words = <<>>
    THEN IF line # <<>>
         THEN [y |-> yy - leading, lines |-> Append(out, line)]
         ELSE [y |-> yy, lines |-> out]
    ELSE LET w == Head(words)
             test == Append(line, w)
         IN  IF stringWidth(line, size) <= width
             THEN WrapLoopMeasuresLine(Tail(words), test, out, yy, width, leading, size)
             ELSE WrapLoopMeasuresLine(Tail(words), <<w>>, Append(out, line), yy - leading,
                                       width, leading, size)

\* The loop of wrap_text over the words still to place: line is the line
\* being built, out the lines drawn so far (each drawString), yy the local y.
\* "test = (line + ' ' + w).strip()" is line with w appended.
RECURSIVE WrapLoop(_, _, _, _, _, _, _)
WrapLoop(words, line, out, yy, width, leading, size) ==
    IF words = <<>>
    THEN IF line # <<>>
         THEN [y |-> yy - leading, lines |-> Append(out, line)]
         ELSE [y |-> yy, lines |-> out]
    ELSE LET w == Head(words)
             test == Append(line, w)
         IN  IF stringWidth(test, size) <= width
             THEN WrapLoop(Tail(words), test, out, yy, width, leading, size)
             ELSE WrapLoop(Tail(words), <<w>>, Append(out, line), yy - leading,
                           width, leading, size)

\* wrap_text(canvas_obj, text, x, y, width, leading, font_name, font_size):
\* the new y and the lines drawn.
wrap_text(words, yy, width, leading, size) ==
    WrapLoop(words, <<>>, <<>>, yy, width, leading, size)

target_w == (26 * inch) \div 10

\* BarcodeScale as it would be without the cap.
BarcodeScaleNoCap(native) == <<target_w, native>>

\* "scale = min(target_w / bc.width, 1.8)" as the fraction <<num, den>>
BarcodeScale(native) ==
    IF target_w * 10 <= 18 * native THEN <<target_w, native>> ELSE <<18, 10>>

\* bc.height of Code128(barHeight=0.30*inch, humanReadable=False)
COMIC_BAR_HEIGHT == (30 * inch) \div 100

ComicTop == COMIC_PAGE_H - MARGIN

ComicAfter(at) ==
    CASE at = "title_gap"     -> "b1"
      [] at \in {"b1", "b1_gap"} -> "b2"
      [] at \in {"b2", "b2_gap"} -> "b3"
      [] at \in {"b3", "b3_gap"} -> "publisher"
      [] at \in {"publisher", "publisher_gap"} -> "price"

ComicGapOf(at) ==
    CASE at = "title" -> "title_gap"
      [] at = "b1" -> "b1_gap"
      [] at = "b2" -> "b2_gap"
      [] at = "b3" -> "b3_gap"
      [] at = "publisher" -> "publisher_gap"

ComicCall(words, leading, size, r) ==
    [by |-> "comic", words |-> words, width |-> MAX_TEXT_W, size |-> size,
     leading |-> leading, y0 |-> y, ret |-> r.y]

\* "y = wrap_text(c, title, x, y, MAX_TEXT_W, leading=13, ..., font_size=12) + 2"
ComicTitle ==
    /\ lv = "comic" /\ lpc = "title"
    /\ \E text \in Texts :
         LET r == wrap_text(text, y, MAX_TEXT_W, 13 * pt, 12 * pt)
         IN  /\ y' = r.y + 2 * pt
             /\ drawn' = r.lines
             /\ call' = ComicCall(text, 13 * pt, 12 * pt, r)
    /\ lpc' = ComicGapOf(lpc)
    /\ UNCHANGED <<lv, bc, footer_y>>
    /\ UNCHANGED mainVars

\* A bullet or the publisher: skipped when blank ("if b and b.strip()",
\* "if publisher.strip()"), else "y = wrap_text(c, line, ..., leading=11, font_size=11)".
ComicField ==
    /\ lv = "comic" /\ lpc \in {"b1", "b2", "b3", "publisher"}
    /\ \E text \in Texts :
         IF text = <<>>
         THEN /\ lpc' = ComicAfter(lpc)
              /\ call' = NoCall /\ drawn' = <<>>
              /\ UNCHANGED y
         ELSE LET words == IF lpc = "publisher"
                           THEN <<BulletWidth(11 * pt), PublisherLabelWidth(11 * pt)>> \o text
                           ELSE <<BulletWidth(11 * pt)>> \o text
                  r == wrap_text(words, y, MAX_TEXT_W, 11 * pt, 11 * pt)
              IN  /\ y' = r.y
                  /\ drawn' = r.lines
                  /\ call' = ComicCall(words, 11 * pt, 11 * pt, r)
                  /\ lpc' = ComicGapOf(lpc)
    /\ UNCHANGED <<lv, bc, footer_y>>
    /\ UNCHANGED mainVars

\* "y -= 3" after the title, after each bullet and after the publisher
ComicFieldGap ==
    /\ lv = "comic"
    /\ lpc \in {"title_gap", "b1_gap", "b2_gap", "b3_gap", "publisher_gap"}
    /\ y' = y - 3 * pt
    /\ lpc' = ComicAfter(lpc)
    /\ call' = NoCall /\ drawn' = <<>>
    /\ UNCHANGED <<lv, bc, footer_y>>
    /\ UNCHANGED mainVars

\* Price line: "y -= 15"
ComicPrice ==
    /\ lv = "comic" /\ lpc = "price"
    /\ y' = y - 15 * pt
    /\ lpc' = "inventory"
    /\ UNCHANGED <<lv, call, drawn, bc, footer_y>>
    /\ UNCHANGED mainVars

\* Inventory line: "y -= 12"
ComicInventory ==
    /\ lv = "comic" /\ lpc = "inventory"
    /\ y' = y - 12 * pt
    /\ lpc' = "number"
    /\ UNCHANGED <<lv, call, drawn, bc, footer_y>>
    /\ UNCHANGED mainVars

\* Barcode number: "y -= 6", drawCentredString, "y -= 6"
ComicNumber ==
    /\ lv = "comic" /\ lpc = "number"
    /\ y' = (y - 6 * pt) - 6 * pt
    /\ lpc' = "barcode"
    /\ UNCHANGED <<lv, call, drawn, bc, footer_y>>
    /\ UNCHANGED mainVars

\* The scaled, centred barcode and the bottom line under it. Products with
\* the scale are rounded down to 1/100 pt.
ComicBarcode ==
    /\ lv = "comic" /\ lpc = "barcode"
    /\ \E native \in BarcodeWidths :
         LET scale == BarcodeScale(native)
             w == (native * scale[1]) \div scale[2]
             bc_x == (COMIC_PAGE_W - w) \div 2
             bc_y == y - (COMIC_BAR_HEIGHT * scale[1]) \div scale[2]
         IN  /\ bc' = [placed |-> TRUE, x |-> bc_x, y |-> bc_y, native |-> native,
                       w |-> w, num |-> scale[1], den |-> scale[2]]
             /\ footer_y' = bc_y - 12 * pt
    /\ lpc' = "done"
    /\ UNCHANGED <<lv, y, call, drawn>>
    /\ UNCHANGED mainVars

(***************************************************************************)
(* draw_label: one call per record; the cursor starts at the top again.    *)
(***************************************************************************)
LayTop(v) == IF v = "card" THEN CardTop ELSE ComicTop

MainIdle ==
    /\ variant = "none" /\ input = [family |-> "none", length |-> 0, delim |-> FALSE]
    /\ pc = "idle" /\ file = <<>> /\ rec = NoRec /\ sniffed = FALSE
    /\ rows = <<>> /\ pages = <<>> /\ saved = FALSE /\ err = ""

InitLayout ==
    /\ MainIdle
    /\ lv \in {"card", "comic"}
    /\ lpc = "title"
    /\ y = LayTop(lv)
    /\ call = NoCall /\ drawn = <<>>
    /\ bc = NoBarcode /\ footer_y = 0

\* draw_label returns; it is called for the next record.
NextLabel ==
    /\ lpc = "done"
    /\ lpc' = "title"
    /\ y' = LayTop(lv)
    /\ call' = NoCall /\ drawn' = <<>>
    /\ bc' = NoBarcode /\ footer_y' = 0
    /\ UNCHANGED lv
    /\ UNCHANGED mainVars

NextLayout ==
    \/ CardTitle
    \/ CardBullet
    \/ CardGap
    \/ CardBarcode
    \/ ComicTitle
    \/ ComicField
    \/ ComicFieldGap
    \/ ComicPrice
    \/ ComicInventory
    \/ ComicNumber
    \/ ComicBarcode
    \/ NextLabel

SpecLayout == InitLayout /\ [][NextLayout]_vars

Next ==
    \/ InputMissing
    \/ Open
    \/ CardReadRow
    \/ CardEndOfFile
    \/ CardRender
    \/ CardSave
    \/ ComicReadRow
    \/ ComicSave

Spec == Init /\ [][Next]_vars

SpecRecord == InitRecord /\ [][Next]_vars

(***************************************************************************)
(* Properties.                                                             *)
(***************************************************************************)
\* a row with a non-whitespace character in some cell
HasText(r) == \E i \in 1..Len(r) : \E j \in 1..Len(r[i]) : ~IsSpace(r[i][j])

\* the numbers of the non-blank rows among f[from..], in order
RECURSIVE NonBlankFrom(_, _)
NonBlankFrom(f, from) ==
    IF from > Len(f) THEN <<>>
    ELSE (IF HasText(f[from]) THEN <<from>> ELSE <<>>) \o NonBlankFrom(f, from + 1)

NonBlankRowNumbers(f) == NonBlankFrom(f, 1)

IsPrefix(a, b) == Len(a) <= Len(b) /\ SubSeq(b, 1, Len(a)) = a

RECURSIVE Flatten(_)
Flatten(ls) == IF ls = <<>> THEN <<>> ELSE Head(ls) \o Flatten(Tail(ls))

Wrapped == call.by # "none"

LineFits(line) ==
    \/ stringWidth(line, call.size) <= call.width
    \/ Len(line) = 1 /\ line[1] > call.width

\* C1: every line a wrap call draws (card: every line simpleSplit returns)
\* has rendered width <= the maximum width, or is exactly one word that is
\* itself wider than the maximum width; the words come out whole and in order.
C1_LinesFit ==
    Wrapped =>
        /\ \A i \in 1..Len(drawn) : LineFits(drawn[i])
        /\ Flatten(drawn) = call.words

\* C1 witness: a comic wrap call that drew an over-wide word alone on a line
\* and a line of several words.
C1_Witness ==
    /\ Wrapped /\ call.by = "comic"
    /\ \E i \in 1..Len(drawn) : Len(drawn[i]) = 1 /\ drawn[i][1] > call.width
    /\ \E i \in 1..Len(drawn) : Len(drawn[i]) >= 2

\* C2: in the card variant the barcode's vertical position bc_y is never
\* below the floor of 8 points, however much text precedes the barcode.
C2_BarcodeAboveFloor == (lv = "card" /\ bc.placed) => bc.y >= 8 * pt

\* C2 witness: a card label whose text pushed y - BARCODE_HEIGHT below the floor.
C2_Witness == lv = "card" /\ bc.placed /\ y - BARCODE_HEIGHT < 8 * pt

ShortRowRead == \E i \in 1..Len(file) : HasText(file[i]) /\ Len(file[i]) < 8

\* C3: in the comic variant a non-blank row of fewer than 8 columns aborts
\* the run with the schema error and no document is saved, pages drawn before
\* it notwithstanding; the document is saved only once every row was processed.
C3_ShortRowAborts ==
    variant = "comic" =>
        /\ ShortRowRead =>
             pc = "aborted" /\ err = "row must have 8 columns" /\ ~saved
        /\ saved =>
             /\ pc = "done" /\ Len(file) = input.length
             /\ pages = NonBlankRowNumbers(file)

\* C3 witness: a comic run aborted on a short row after a page was drawn.
C3_Witness ==
    /\ variant = "comic" /\ ShortRowRead /\ pc = "aborted"
    /\ Len(pages) >= 1 /\ ~saved

\* C4: when the input exists and holds no valid record (no rows, or only
\* blank rows), the run aborts with the "no rows parsed" error and saves no
\* document, in every variant.
C4_NoRowsAborts ==
    ( /\ pc \in {"done", "aborted"} /\ err # "input not found"
      /\ Len(file) = input.length
      /\ NonBlankRowNumbers(file) = <<>> )
    => (pc = "aborted" /\ err = "no rows parsed" /\ ~saved)

\* C5: the records the Row Reader produces, and the pages emitted, are the
\* non-blank rows of the input, one each and in input order; blank rows
\* contribute none.
C5_OnePagePerRow ==
    /\ IsCard(variant) => rows = NonBlankRowNumbers(file)
    /\ IsPrefix(pages, NonBlankRowNumbers(file))
    /\ pc = "done" => Len(file) = input.length /\ pages = NonBlankRowNumbers(file)

\* C5 witness: a finished run over a valid row, a blank row and a valid row.
C5_Witness == pc = "done" /\ Len(file) = 3 /\ pages = <<1, 3>>

LastRow == file[Len(file)]
Col(i) == IF i <= Len(LastRow) THEN LastRow[i] ELSE <<>>
Populated(n) == Len(LastRow) >= n /\ \A i \in 1..n : strip(LastRow[i]) # <<>>

\* C6: a well-formed row becomes a record whose fields are the row's fields
\* stripped of leading and trailing whitespace, in column order (card: the
\* 4th column dropped, short rows padded with empty strings, long rows cut to
\* 7; comic: the 8 columns of a fully populated row).
C6_RecordRoundTrip ==
    /\ (IsCard(variant) /\ file # <<>> /\ HasText(LastRow)) =>
         rec = [title |-> strip(Col(1)), b1 |-> strip(Col(2)), b2 |-> strip(Col(3)),
                price |-> strip(Col(5)), inv |-> strip(Col(6)),
                barcode |-> strip(Col(7))]
    /\ (variant = "comic" /\ file # <<>> /\ Populated(8)) =>
         /\ rec.title = strip(Col(1)) /\ rec.b1 = strip(Col(2))
         /\ rec.b2 = strip(Col(3)) /\ rec.b3 = strip(Col(4))
         /\ rec.publisher = strip(Col(5)) /\ rec.price = strip(Col(6))
         /\ rec.inv = strip(Col(7)) /\ rec.barcode = strip(Col(8))

\* C7: the footer line under the barcode is drawn at a vertical position
\* >= 0, inside the canvas, whatever text precedes it, in both variants.
C7_FooterInside == bc.placed => footer_y >= 0

\* C8: the comic barcode scale is min(target_w / native, 1.8): the rendered
\* width is at most target_w, the magnification at most 1.8, and the centred
\* barcode lies horizontally inside the page.
C8_BarcodeFits ==
    (lv = "comic" /\ bc.placed) =>
        /\ bc.num * bc.native <= target_w * bc.den
        /\ bc.num * 10 <= 18 * bc.den
        /\ bc.num * bc.native = target_w * bc.den \/ bc.num * 10 = 18 * bc.den
        /\ bc.w <= target_w
        /\ bc.x >= 0 /\ bc.x + bc.w <= COMIC_PAGE_W

\* C8 witness: a comic barcode narrow enough for the cap of 1.8 to apply.
C8_Witness ==
    /\ lv = "comic" /\ bc.placed
    /\ bc.num * 10 = 18 * bc.den /\ bc.w < target_w

\* C9: within one label every assignment to the cursor y yields a value <=
\* the value before it, in every variant and for every record.
C9_CursorDecreases == [][lpc # "done" => y' <= y]_vars

\* C10: the comic wrap_text never draws an empty line: every line drawn holds
\* a word, the returned y is the starting y minus leading for each such line,
\* and the lines hold the words of the text in order.
C10_NoEmptyLine ==
    (Wrapped /\ call.by = "comic") =>
        /\ \A i \in 1..Len(drawn) : drawn[i] # <<>>
        /\ call.ret = call.y0 - call.leading * Cardinality({i \in 1..Len(drawn) : drawn[i] # <<>>})
        /\ Flatten(drawn) = call.words

====
